---- MODULE Spec2Model ----
(***************************************************************************)
(* State-machine model of the saas-forge-api authentication / session      *)
(* lifecycle (AuthService, AuthController, UserService) and of its         *)
(* authorization guards (RolesGuard, TenantRolesGuard).                    *)
(*                                                                         *)
(* Representation choices                                                  *)
(*  - A Mongo ObjectId and its 24-character hex string are different       *)
(*    values: Oid(n) and HexString(Oid(n)).  JavaScript `===` between the  *)
(*    two is false; Mongoose casts a string to an ObjectId when it stores  *)
(*    or queries, JSON serialisation (a JWT payload) turns an ObjectId     *)
(*    into its hex string.                                                 *)
(*  - A JWT is the record of what its three segments encode: the payload   *)
(*    claims in the order the code builds them (sub, email, isActive, then *)
(*    iat and exp added by the signer in whole seconds) and the secret     *)
(*    that produced the signature.  Two tokens signed for the same payload *)
(*    in the same second with the same secret are the same string.         *)
(*  - bcrypt derives its digest from the first 72 bytes of the plaintext   *)
(*    and a random 16-byte salt.  The first 72 bytes of a JWT produced by  *)
(*    generateTokens are the fixed 36-character header, the dot, and the   *)
(*    first 35 base64url characters of the payload, i.e. `{"sub":"` and    *)
(*    the leading characters of the user id: see Trunc72.                  *)
(***************************************************************************)
EXTENDS Integers, Sequences, FiniteSets, TLC

VARIABLES
    users,      \* the users collection: sequence of User documents, _id = Oid(index)
    now,        \* wall clock, whole seconds (jsonwebtoken's iat / exp unit)
    issued,     \* history: every JWT handed out so far by login / refresh
    last,       \* the outcome of the most recent request handled in one piece
    procs,      \* refresh requests in flight: position, locals and outcome of each
    tenants,    \* the tenants collection: sequence of Tenant documents, _id = Oid(index)
    guard       \* the most recent guard decision and the request it was taken on
                \* (flip alternates so that every decision is a step)

vars == <<users, now, issued, last, procs, tenants, guard>>

-----------------------------------------------------------------------------
(* Bounds and input domains *)

Emails == {"a@x.com"}
LoginEmails == Emails \cup {"missing@x.com"}
TwoEmails == {"a@x.com", "b@x.com"}
Passwords == {"pw", "pw2"}
MaxSecs == 1
MaxJumps == 1
NSalts == 7
Procs == {"r1", "r2"}

NodeEnvs == {"production", "development"}

(* Program constants *)
AccessTtl == 3600
RefreshTtl == 604800
CookieMaxAge == 604800000

Salts == 1..NSalts
NULL == [t |-> "null"]
Undefined == [t |-> "undefined"]
Arr(S) == [t |-> "array", elems |-> S]
NoTokens == [accessToken |-> NULL, refreshToken |-> NULL]

-----------------------------------------------------------------------------
(* Identifiers *)

Oid(n) == [t |-> "ObjectId", hex |-> n]
HexString(oid) == [t |-> "string", hex |-> oid.hex]
CastObjectId(v) == [t |-> "ObjectId", hex |-> v.hex]

-----------------------------------------------------------------------------
(* bcrypt *)

\* a password or other short text: shorter than 72 bytes, so bcrypt uses all of it
Plain(pw) == [t |-> "text", v |-> pw]

\* The bytes of the plaintext that bcrypt uses.  For a JWT of generateTokens these
\* are "eyJhbGciOiJIUzI1NiIsInR5cCI6IkpXVCJ9." (37 bytes) and 35 base64url
\* characters of the payload, which encode {"sub":" and the first 18 hex
\* characters of the user id: neither email, iat, exp nor the signature.
Trunc72(plain) ==
    IF plain.t = "jwt" THEN [t |-> "jwt72", sub |-> plain.sub] ELSE plain

bcryptHash(plain, salt) == [t |-> "bcrypt", salt |-> salt, key |-> Trunc72(plain)]

bcryptCompare(plain, hash) ==
    /\ hash.t = "bcrypt"
    /\ bcryptHash(plain, hash.salt) = hash

UsedSalts ==
    {users[i].password.salt : i \in DOMAIN users}
      \cup {users[i].refreshToken.salt :
              i \in {j \in DOMAIN users : users[j].refreshToken # NULL}}
      \cup {procs[p].hashed.salt : p \in {q \in Procs : procs[q].hashed # NULL}}

FreshSalt_fixed == CHOOSE s \in Salts : \A r \in Salts : s <= r

\* the salt bcrypt.hash draws: a value held by no stored or in-flight hash
FreshSalt == CHOOSE s \in Salts : s \notin UsedSalts /\ \A r \in Salts : r < s => r \in UsedSalts

-----------------------------------------------------------------------------
(* JwtService *)

jwtSign(payload, secret, ttl) ==
    [t |-> "jwt", sub |-> payload.sub, email |-> payload.email,
     isActive |-> payload.isActive, iat |-> now, exp |-> now + ttl,
     secret |-> secret]

jwtVerify(token, secret) ==
    /\ token.t = "jwt"
    /\ token.secret = secret
    /\ now < token.exp

ForgedToken ==
    [t |-> "jwt", sub |-> HexString(Oid(1)), email |-> "a@x.com",
     isActive |-> TRUE, iat |-> 0, exp |-> RefreshTtl, secret |-> "attacker"]

-----------------------------------------------------------------------------
(* UserService *)

findByEmail_none(email) == 0

findByEmail(email) ==
    LET idx == {i \in DOMAIN users : users[i].email = email}
    IN  IF idx = {} THEN 0 ELSE CHOOSE i \in idx : \A j \in idx : i <= j

UserResponseDto_raw(savedUser, id) ==
    [_id |-> Oid(id), email |-> savedUser.email, password |-> savedUser.password,
     isActive |-> savedUser.isActive, refreshToken |-> savedUser.refreshToken]

\* plainToInstance(UserResponseDto, savedUser, {excludeExtraneousValues: true}):
\* the @Expose() properties of the DTO that the document has (roles is not a path
\* of the schema; createdAt / updatedAt are left out of the model)
UserResponseDto(savedUser, id) ==
    [_id |-> Oid(id), email |-> savedUser.email, isActive |-> savedUser.isActive]

\* user.save() under the unique index on email
create(email, password) ==
    IF \E i \in DOMAIN users : users[i].email = email
    THEN [ok |-> FALSE, users |-> users]
    ELSE [ok |-> TRUE,
          users |-> Append(users, [email |-> email, password |-> password,
                                   isActive |-> TRUE, refreshToken |-> NULL,
                                   tenants |-> <<>>])]

\* a query projection .select('-password'): every stored path but password
selectMinusPassword(i) ==
    [_id |-> Oid(i), email |-> users[i].email, isActive |-> users[i].isActive,
     refreshToken |-> users[i].refreshToken, tenants |-> users[i].tenants]

getAllUsers == [i \in DOMAIN users |-> selectMinusPassword(i)]

findById(id) ==
    IF CastObjectId(id).hex \in DOMAIN users
    THEN selectMinusPassword(CastObjectId(id).hex) ELSE NULL

updateRefreshToken(userId, refreshToken) ==
    LET oid == CastObjectId(userId)
    IN  [i \in DOMAIN users |->
            IF Oid(i) = oid THEN [users[i] EXCEPT !.refreshToken = refreshToken]
            ELSE users[i]]

removeRefreshToken_noop(userId) == users

removeRefreshToken(userId) == updateRefreshToken(userId, NULL)

-----------------------------------------------------------------------------
(* AuthService *)

\* roles: user.roles is undefined (the User schema has no roles field) and is
\* dropped when the payload is serialised
generateTokens(i) ==
    LET payload == [sub |-> HexString(Oid(i)), email |-> users[i].email,
                    isActive |-> users[i].isActive]
    IN  [accessToken |-> jwtSign(payload, "JWT_SECRET", AccessTtl),
         refreshToken |-> jwtSign(payload, "JWT_REFRESH_SECRET", RefreshTtl)]

\* what a handler did to the refresh_token cookie of its response
NoCookie == [action |-> "none"]
ClearedCookie == [action |-> "clearCookie", name |-> "refresh_token"]

\* the response of a handler: status, message and inner error, the token pair or
\* other body it returns, its cookie effect, and the NODE_ENV it read (if any)
Result(op, arg, status, message, inner, tokens) ==
    [op |-> op, arg |-> arg, status |-> status, message |-> message,
     inner |-> inner, tokens |-> tokens, body |-> NULL, cookie |-> NoCookie,
     env |-> ""]

Idle ==
    [pc |-> "idle", refreshToken |-> NULL, user |-> 0, stored |-> NULL,
     tokens |-> NoTokens, hashed |-> NULL, status |-> "none", message |-> ""]

Init ==
    /\ users = <<>>
    /\ now = 0
    /\ issued = {}
    /\ last = Result("none", NULL, "none", "", "", NoTokens)
    /\ procs = [p \in Procs |-> Idle]
    /\ tenants = <<>>
    /\ guard = [guard |-> "none", flip |-> 0]

Tick(d) ==
    /\ d = 1 => (now % RefreshTtl) < MaxSecs
    /\ d = RefreshTtl => (now \div RefreshTtl) < MaxJumps
    /\ now' = now + d
    /\ UNCHANGED <<users, issued, last, procs, tenants, guard>>

Register(email, pw) ==
    LET existingUser == findByEmail(email)
        hashed == bcryptHash(Plain(pw), FreshSalt)
        created == create(email, hashed)
    IN  /\ IF existingUser # 0
           THEN /\ last' = Result("register", email, "Conflict",
                                  "User with email already exists", "", NoTokens)
                /\ UNCHANGED users
           ELSE IF created.ok
           THEN /\ users' = created.users
                /\ last' = [Result("register", email, "ok", "", "", NoTokens)
                              EXCEPT !.body =
                                 UserResponseDto(created.users[Len(created.users)],
                                                 Len(created.users))]
           ELSE /\ last' = Result("register", email, "MongoServerError",
                                  "E11000 duplicate key", "", NoTokens)
                /\ UNCHANGED users
        /\ UNCHANGED <<now, issued, procs, tenants, guard>>

InvalidCredentials == [status |-> "Unauthorized", message |-> "Invalid credentials"]

loginCheck_enum(email, pw) ==
    LET user == findByEmail(email)
    IN  IF user = 0 THEN [status |-> "NotFound", message |-> "User not found"]
        ELSE IF ~bcryptCompare(Plain(pw), users[user].password) THEN InvalidCredentials
        ELSE [status |-> "ok", message |-> ""]

loginCheck(email, pw) ==
    LET user == findByEmail(email)
    IN  IF user = 0 THEN InvalidCredentials
        ELSE IF ~bcryptCompare(Plain(pw), users[user].password) THEN InvalidCredentials
        ELSE [status |-> "ok", message |-> ""]

refreshCookie_insecure(value, nodeEnv) ==
    [action |-> "cookie", name |-> "refresh_token", value |-> value,
     httpOnly |-> TRUE, secure |-> FALSE, sameSite |-> "strict",
     maxAge |-> CookieMaxAge]

\* res.cookie('refresh_token', tokens.refreshToken, {...})
refreshCookie(value, nodeEnv) ==
    [action |-> "cookie", name |-> "refresh_token", value |-> value,
     httpOnly |-> TRUE, secure |-> (nodeEnv = "production"), sameSite |-> "strict",
     maxAge |-> CookieMaxAge]

Login(email, pw) ==
    LET user == findByEmail(email)
        check == loginCheck(email, pw)
        tokens == generateTokens(user)
        hashedRefreshToken == bcryptHash(tokens.refreshToken, FreshSalt)
    IN  /\ IF check.status = "ok"
           THEN /\ users' = updateRefreshToken(HexString(Oid(user)), hashedRefreshToken)
                /\ issued' = issued \cup {tokens.accessToken, tokens.refreshToken}
                /\ \E nodeEnv \in NodeEnvs :
                      last' = [Result("login", email, "ok", "", "", tokens)
                                 EXCEPT !.cookie = refreshCookie(tokens.refreshToken,
                                                                 nodeEnv),
                                        !.env = nodeEnv]
           ELSE /\ last' = Result("login", email, check.status, check.message, "", NoTokens)
                /\ UNCHANGED <<users, issued>>
        /\ UNCHANGED <<now, procs, tenants, guard>>

Faults == {"none", "findByEmail", "compare", "updateRefreshToken"}

refreshTry(refreshToken, fault) ==
    LET user == findByEmail(refreshToken.email)
    IN  IF ~jwtVerify(refreshToken, "JWT_REFRESH_SECRET") THEN "JsonWebTokenError"
        ELSE IF fault = "findByEmail" THEN "MongoError"
        ELSE IF user = 0 THEN "Access denied."
        ELSE IF users[user].refreshToken = NULL THEN "Access denied."
        ELSE IF fault = "compare" THEN "BcryptError"
        ELSE IF ~bcryptCompare(refreshToken, users[user].refreshToken)
             THEN "Invalid refresh token."
        ELSE IF fault = "updateRefreshToken" THEN "MongoError"
        ELSE ""

refreshCatch_rethrow(inner) ==
    IF inner \in {"Access denied.", "Invalid refresh token."}
    THEN [status |-> "Forbidden", message |-> inner]
    ELSE [status |-> "InternalServerError", message |-> inner]

refreshCatch(inner) ==
    [status |-> "Forbidden", message |-> "Token expired or invalid."]

Refresh_revokeOnFailure(refreshToken, fault) ==
    LET inner == refreshTry(refreshToken, fault)
        user == findByEmail(refreshToken.email)
        tokens == generateTokens(user)
        hashedRefreshToken == bcryptHash(tokens.refreshToken, FreshSalt)
        caught == refreshCatch(inner)
    IN  /\ IF inner = ""
           THEN /\ users' = updateRefreshToken(HexString(Oid(user)), hashedRefreshToken)
                /\ issued' = issued \cup {tokens.accessToken, tokens.refreshToken}
                /\ last' = Result("refresh", refreshToken, "ok", "", "", tokens)
           ELSE /\ last' = Result("refresh", refreshToken, caught.status,
                                  caught.message, inner, NoTokens)
                /\ users' = removeRefreshToken(refreshToken.sub)
                /\ UNCHANGED issued
        /\ UNCHANGED <<now, procs, tenants, guard>>

Refresh(refreshToken, fault) ==
    LET inner == refreshTry(refreshToken, fault)
        user == findByEmail(refreshToken.email)
        tokens == generateTokens(user)
        hashedRefreshToken == bcryptHash(tokens.refreshToken, FreshSalt)
        caught == refreshCatch(inner)
    IN  /\ IF inner = ""
           THEN /\ users' = updateRefreshToken(HexString(Oid(user)), hashedRefreshToken)
                /\ issued' = issued \cup {tokens.accessToken, tokens.refreshToken}
                /\ last' = Result("refresh", refreshToken, "ok", "", "", tokens)
           ELSE /\ last' = Result("refresh", refreshToken, caught.status,
                                  caught.message, inner, NoTokens)
                /\ UNCHANGED <<users, issued>>
        /\ UNCHANGED <<now, procs, tenants, guard>>

validate(payload) ==
    [t |-> "user", userId |-> payload.sub, email |-> payload.email,
     roles |-> Undefined, isActive |-> payload.isActive]

LogoutFaults == {"none", "removeRefreshToken"}

\* the handler clears the cookie before it awaits removeRefreshToken
logoutResponse_cookieFirst(userId, fault) ==
    IF fault = "removeRefreshToken"
    THEN [Result("logout", userId, "Error", "Database error", "", NoTokens)
            EXCEPT !.cookie = ClearedCookie]
    ELSE [Result("logout", userId, "ok", "Logged out successfully", "", NoTokens)
            EXCEPT !.cookie = ClearedCookie]

\* lines 85-88: a rejection of removeRefreshToken leaves the handler at line 85
logoutResponse(userId, fault) ==
    IF fault = "removeRefreshToken"
    THEN Result("logout", userId, "Error", "Database error", "", NoTokens)
    ELSE [Result("logout", userId, "ok", "Logged out successfully", "", NoTokens)
            EXCEPT !.cookie = ClearedCookie]

Logout(accessToken, fault) ==
    /\ jwtVerify(accessToken, "JWT_SECRET")
    /\ users' = IF fault = "removeRefreshToken" THEN users
                ELSE removeRefreshToken(validate(accessToken).userId)
    /\ last' = logoutResponse(validate(accessToken).userId, fault)
    /\ UNCHANGED <<now, issued, procs, tenants, guard>>

Next ==
    \/ \E d \in {1, RefreshTtl} : Tick(d)
    \/ \E e \in Emails, p \in Passwords : Register(e, p)
    \/ \E e \in LoginEmails, p \in Passwords : Login(e, p)
    \/ \E tok \in issued \cup {ForgedToken}, f \in Faults : Refresh(tok, f)
    \/ \E tok \in issued, f \in LogoutFaults : Logout(tok, f)

Spec == Init /\ [][Next]_vars

-----------------------------------------------------------------------------
(* AuthController.refresh, one step per suspension point that reads or writes
   shared state; several requests may be between steps at the same time *)

RefreshVerify(p, refreshToken) ==
    /\ procs[p].pc = "idle"
    /\ procs' = [procs EXCEPT ![p] =
          IF jwtVerify(refreshToken, "JWT_REFRESH_SECRET")
          THEN [Idle EXCEPT !.pc = "verified", !.refreshToken = refreshToken]
          ELSE [Idle EXCEPT !.pc = "done", !.refreshToken = refreshToken,
                            !.status = refreshCatch("JsonWebTokenError").status,
                            !.message = refreshCatch("JsonWebTokenError").message]]
    /\ UNCHANGED <<users, now, issued, last, tenants, guard>>

RefreshFind(p) ==
    /\ procs[p].pc = "verified"
    /\ LET user == findByEmail(procs[p].refreshToken.email)
       IN  procs' = [procs EXCEPT ![p] =
             IF user = 0 \/ users[user].refreshToken = NULL
             THEN [@ EXCEPT !.pc = "done",
                            !.status = refreshCatch("Access denied.").status,
                            !.message = refreshCatch("Access denied.").message]
             ELSE [@ EXCEPT !.pc = "found", !.user = user,
                            !.stored = users[user].refreshToken]]
    /\ UNCHANGED <<users, now, issued, last, tenants, guard>>

RefreshCompare(p) ==
    /\ procs[p].pc = "found"
    /\ LET tokens == generateTokens(procs[p].user)
       IN  procs' = [procs EXCEPT ![p] =
             IF ~bcryptCompare(procs[p].refreshToken, procs[p].stored)
             THEN [@ EXCEPT !.pc = "done",
                            !.status = refreshCatch("Invalid refresh token.").status,
                            !.message = refreshCatch("Invalid refresh token.").message]
             ELSE [@ EXCEPT !.pc = "signed", !.tokens = tokens,
                            !.hashed = bcryptHash(tokens.refreshToken, FreshSalt)]]
    /\ UNCHANGED <<users, now, issued, last, tenants, guard>>

RefreshStore(p) ==
    /\ procs[p].pc = "signed"
    /\ users' = updateRefreshToken(HexString(Oid(procs[p].user)), procs[p].hashed)
    /\ issued' = issued \cup {procs[p].tokens.accessToken, procs[p].tokens.refreshToken}
    /\ procs' = [procs EXCEPT ![p] = [@ EXCEPT !.pc = "done", !.status = "ok"]]
    /\ UNCHANGED <<now, last, tenants, guard>>

RefreshTokens == {tok \in issued : tok.secret = "JWT_REFRESH_SECRET"}

NextC ==
    \/ Tick(1)
    \/ \E e \in Emails, p \in Passwords : Register(e, p)
    \/ \E e \in LoginEmails, p \in Passwords : Login(e, p)
    \/ \E p \in Procs, tok \in RefreshTokens : RefreshVerify(p, tok)
    \/ \E p \in Procs : RefreshFind(p)
    \/ \E p \in Procs : RefreshCompare(p)
    \/ \E p \in Procs : RefreshStore(p)

SpecC == Init /\ [][NextC]_vars

\* logout next to refresh requests in flight
NextLogoutRace ==
    \/ \E e \in Emails, p \in Passwords : Register(e, p)
    \/ \E e \in LoginEmails, p \in Passwords : Login(e, p)
    \/ \E tok \in issued, f \in LogoutFaults : Logout(tok, f)
    \/ \E p \in Procs, tok \in RefreshTokens : RefreshVerify(p, tok)
    \/ \E p \in Procs : RefreshFind(p)
    \/ \E p \in Procs : RefreshCompare(p)
    \/ \E p \in Procs : RefreshStore(p)

SpecLogoutRace == Init /\ [][NextLogoutRace]_vars

-----------------------------------------------------------------------------
(* AuthService.register, one step per await that reads or writes the users
   collection; two requests may be between steps at the same time *)

RegisterRequest(pc, email, hashed, status, message) ==
    [pc |-> pc, email |-> email, hashed |-> hashed, status |-> status,
     message |-> message]

\* lines 17-23: findByEmail, the Conflict check, bcrypt.hash
RegisterFind(p, email, pw) ==
    /\ procs[p].pc = "idle"
    /\ procs' = [procs EXCEPT ![p] =
          IF findByEmail(email) # 0
          THEN RegisterRequest("done", email, NULL, "Conflict",
                               "User with email already exists")
          ELSE RegisterRequest("hashed", email, bcryptHash(Plain(pw), FreshSalt),
                               "none", "")]
    /\ UNCHANGED <<users, now, issued, last, tenants, guard>>

\* line 24: userService.create, i.e. user.save() under the unique index
RegisterSave(p) ==
    /\ procs[p].pc = "hashed"
    /\ LET created == create(procs[p].email, procs[p].hashed)
       IN  IF created.ok
           THEN /\ users' = created.users
                /\ procs' = [procs EXCEPT ![p] =
                      RegisterRequest("done", procs[p].email, procs[p].hashed,
                                      "ok", "")]
           ELSE /\ procs' = [procs EXCEPT ![p] =
                      RegisterRequest("done", procs[p].email, procs[p].hashed,
                                      "MongoServerError", "E11000 duplicate key")]
                /\ UNCHANGED users
    /\ UNCHANGED <<now, issued, last, tenants, guard>>

NextRegisterRace ==
    \/ \E p \in Procs, e \in TwoEmails, pw \in Passwords : RegisterFind(p, e, pw)
    \/ \E p \in Procs : RegisterSave(p)

SpecRegisterRace == Init /\ [][NextRegisterRace]_vars

-----------------------------------------------------------------------------
(* TenantService *)

TenantNames == {"acme"}
TenantRole == {"OWNER", "ADMIN", "EDITOR", "VIEWER"}
UserIds == {HexString(Oid(1)), HexString(Oid(2))}
TenantIds == {HexString(Oid(1))}
MaxMembers == 2

Identity(userId) ==
    [t |-> "user", userId |-> userId, email |-> "", roles |-> Undefined,
     isActive |-> TRUE]

getTenant(id) ==
    LET oid == CastObjectId(id)
    IN  IF oid.hex \in DOMAIN tenants THEN oid.hex ELSE 0

createTenant(user, name) ==
    /\ \A i \in DOMAIN tenants : tenants[i].name # name
    /\ tenants' = Append(tenants,
          [name |-> name,
           createdBy |-> CastObjectId(user.userId),
           updatedBy |-> CastObjectId(user.userId),
           members |-> <<[userId |-> CastObjectId(user.userId), role |-> "OWNER"]>>,
           joinRequests |-> <<>>])
    /\ UNCHANGED <<users, now, issued, last, procs, guard>>

addUserToTenant(tenantId, userId, role) ==
    /\ getTenant(tenantId) # 0
    /\ Len(tenants[getTenant(tenantId)].members) < MaxMembers
    /\ tenants' = [tenants EXCEPT ![getTenant(tenantId)].members =
                      Append(@, [userId |-> CastObjectId(userId), role |-> role])]
    /\ UNCHANGED <<users, now, issued, last, procs, guard>>

Pull(members, oid) ==
    LET keep == {i \in DOMAIN members : members[i].userId # oid}
        RECURSIVE rebuild(_)
        rebuild(i) ==
            IF i > Len(members) THEN <<>>
            ELSE IF i \in keep THEN <<members[i]>> \o rebuild(i + 1)
            ELSE rebuild(i + 1)
    IN  rebuild(1)

removeUserFromTenant(tenantId, userId) ==
    /\ getTenant(tenantId) # 0
    /\ tenants' = [tenants EXCEPT ![getTenant(tenantId)].members =
                      Pull(@, CastObjectId(userId))]
    /\ UNCHANGED <<users, now, issued, last, procs, guard>>

-----------------------------------------------------------------------------
(* TenantRolesGuard *)

StrictEq(a, b) == a = b

\* members.find((member) => member.userId === user.userId)?.role
memberRole(members, user) ==
    LET hits == {i \in DOMAIN members : StrictEq(members[i].userId, user.userId)}
    IN  IF hits = {} THEN Undefined
        ELSE members[CHOOSE i \in hits : \A j \in hits : i <= j].role

resolveTenantId_headerFirst(paramsId, header) ==
    IF header # Undefined THEN header ELSE paramsId

\* request.params.id || request.headers['x-tenant-id']
resolveTenantId(paramsId, header) ==
    IF paramsId # Undefined THEN paramsId ELSE header

TenantRolesGuard_canActivate_adminBypass(requiredRoles, user, paramsId, header) ==
    LET tenantId == resolveTenantId(paramsId, header)
        tenant == getTenant(tenantId)
        tenantRole == memberRole(tenants[tenant].members, user)
    IN  IF requiredRoles = Undefined \/ requiredRoles.elems = {} THEN TRUE
        ELSE IF user = Undefined THEN FALSE
        ELSE IF user.roles \notin {Undefined, NULL} /\ "ADMIN" \in user.roles.elems
             THEN TRUE
        ELSE IF tenantId = Undefined THEN FALSE
        ELSE IF tenant = 0 THEN FALSE
        ELSE IF tenantRole = Undefined THEN FALSE
        ELSE tenantRole \in requiredRoles.elems

TenantRolesGuard_canActivate_lax(requiredRoles, user, paramsId, header) ==
    LET tenantId == resolveTenantId(paramsId, header)
        tenant == getTenant(tenantId)
        tenantRole == memberRole(tenants[tenant].members, user)
    IN  IF requiredRoles = Undefined \/ requiredRoles.elems = {} THEN TRUE
        ELSE IF user = Undefined THEN FALSE
        ELSE IF tenantId = Undefined THEN FALSE
        ELSE IF tenant = 0 THEN FALSE
        ELSE IF tenantRole = Undefined THEN TRUE
        ELSE tenantRole \in requiredRoles.elems

TenantRolesGuard_canActivate(requiredRoles, user, paramsId, header) ==
    LET tenantId == resolveTenantId(paramsId, header)
        tenant == getTenant(tenantId)
        tenantRole == memberRole(tenants[tenant].members, user)
    IN  IF requiredRoles = Undefined \/ requiredRoles.elems = {} THEN TRUE
        ELSE IF user = Undefined THEN FALSE
        ELSE IF tenantId = Undefined THEN FALSE
        ELSE IF tenant = 0 THEN FALSE
        ELSE IF tenantRole = Undefined THEN FALSE
        ELSE tenantRole \in requiredRoles.elems

RequiredTenantRoles ==
    {Undefined, Arr({}), Arr({"OWNER"}), Arr({"OWNER", "ADMIN"})}

\* the id handed to tenantService.getTenant, Undefined when the guard returns
\* before line 32
fetchedTenantId(requiredRoles, user, paramsId, header) ==
    IF requiredRoles = Undefined \/ requiredRoles.elems = {} THEN Undefined
    ELSE IF user = Undefined THEN Undefined
    ELSE resolveTenantId(paramsId, header)

TenantGuardCheck(requiredRoles, user, paramsId, header) ==
    /\ guard' = [guard |-> "TenantRolesGuard", flip |-> 1 - guard.flip,
                 requiredRoles |-> requiredRoles,
                 user |-> user, paramsId |-> paramsId, header |-> header,
                 fetched |-> fetchedTenantId(requiredRoles, user, paramsId, header),
                 allowed |-> TenantRolesGuard_canActivate(requiredRoles, user,
                                                         paramsId, header)]
    /\ UNCHANGED <<users, now, issued, last, procs, tenants>>

NextTenant ==
    \/ \E u \in UserIds, n \in TenantNames : createTenant(Identity(u), n)
    \/ \E t \in TenantIds, u \in UserIds, r \in TenantRole : addUserToTenant(t, u, r)
    \/ \E t \in TenantIds, u \in UserIds : removeUserFromTenant(t, u)
    \/ \E rr \in RequiredTenantRoles,
          u \in {Undefined} \cup {Identity(x) : x \in UserIds},
          pid \in {Undefined} \cup TenantIds,
          h \in {Undefined} \cup TenantIds : TenantGuardCheck(rr, u, pid, h)

SpecTenant == Init /\ [][NextTenant]_vars

\* the guard in front of two tenants, for requests that carry global roles and
\* name a tenant in the path, in the x-tenant-id header, or in both
GuardTenantNames == {"acme", "globex"}
GuardTenantIds == {HexString(Oid(1)), HexString(Oid(2))}

GuardIdentities ==
    {Undefined} \cup
    {[Identity(x) EXCEPT !.roles = r] :
        x \in UserIds, r \in {Undefined, Arr({"ADMIN"})}}

NextGuard ==
    \/ \E u \in UserIds, n \in GuardTenantNames : createTenant(Identity(u), n)
    \/ \E t \in GuardTenantIds : addUserToTenant(t, HexString(Oid(2)), "VIEWER")
    \/ \E rr \in {Arr({"OWNER"}), Arr({"OWNER", "ADMIN"})},
          u \in GuardIdentities,
          pid \in {Undefined} \cup GuardTenantIds,
          h \in {Undefined} \cup GuardTenantIds : TenantGuardCheck(rr, u, pid, h)

SpecGuard == Init /\ [][NextGuard]_vars

-----------------------------------------------------------------------------
(* UserController: the read routes, next to the requests that create users and
   sessions *)

\* GET /users (no guard)
GetAllUsers ==
    /\ last' = [Result("getAllUsers", NULL, "ok", "", "", NoTokens)
                  EXCEPT !.body = getAllUsers]
    /\ UNCHANGED <<users, now, issued, procs, tenants, guard>>

\* GET /users/user/:id behind JwtAuthGuard
GetUser(accessToken, id) ==
    /\ jwtVerify(accessToken, "JWT_SECRET")
    /\ last' = [Result("getUser", id, "ok", "", "", NoTokens)
                  EXCEPT !.body = findById(id)]
    /\ UNCHANGED <<users, now, issued, procs, tenants, guard>>

NextUsers ==
    \/ Tick(1)
    \/ \E e \in Emails, p \in Passwords : Register(e, p)
    \/ \E e \in LoginEmails, p \in Passwords : Login(e, p)
    \/ \E tok \in issued, f \in LogoutFaults : Logout(tok, f)
    \/ GetAllUsers
    \/ \E tok \in issued, id \in UserIds : GetUser(tok, id)

SpecUsers == Init /\ [][NextUsers]_vars

-----------------------------------------------------------------------------
(* Registration and login of two accounts *)

NextCred ==
    \/ \E e \in TwoEmails, p \in Passwords : Register(e, p)
    \/ \E e \in TwoEmails, p \in Passwords : Login(e, p)

SpecCred == Init /\ [][NextCred]_vars

-----------------------------------------------------------------------------
(* UserService: the tenant list of a user *)

MaxUserTenants == 3
BodyTenantIds == {HexString(Oid(1)), HexString(Oid(2))}
SpreadOutcomes == {"fields", "internals"}

\* lines 49-60: the users collection after the call, or the NotFound it throws
addTenantToUser(userId, tenantId) ==
    LET i == CastObjectId(userId).hex
    IN  IF i \notin DOMAIN users
        THEN [status |-> "NotFound", message |-> "User not found", users |-> users]
        ELSE [status |-> "ok", message |-> "",
              users |-> [users EXCEPT ![i].tenants =
                            Append(@, [tenantId |-> CastObjectId(tenantId),
                                       default |-> (Len(@) = 0)])]]

\* user.tenants.filter((tenant) => tenant.tenantId.toString() !== tenantId)
FilterTenants(list, tenantId) ==
    LET RECURSIVE rebuild(_)
        rebuild(k) ==
            IF k > Len(list) THEN <<>>
            ELSE IF HexString(list[k].tenantId) # tenantId
                 THEN <<list[k]>> \o rebuild(k + 1)
            ELSE rebuild(k + 1)
    IN  rebuild(1)

removeTenantFromUser(userId, tenantId) ==
    LET i == CastObjectId(userId).hex
    IN  IF i \notin DOMAIN users
        THEN [status |-> "NotFound", message |-> "User not found", users |-> users]
        ELSE IF Len(users[i].tenants) = 1
        THEN [status |-> "BadRequest", message |-> "User must have at least one tenant",
              users |-> users]
        ELSE [status |-> "ok", message |-> "",
              users |-> [users EXCEPT ![i].tenants = FilterTenants(@, tenantId)]]

\* lines 84-95.  The entries are Mongoose subdocuments: whether { ...tenant }
\* copies their fields, or only the document internals (so that the required
\* tenantId is missing and user.save() is rejected), depends on the Mongoose
\* build; both outcomes are kept.
setDefaultTenant(userId, tenantId, spread) ==
    LET i == CastObjectId(userId).hex
    IN  IF i \notin DOMAIN users
        THEN [status |-> "NotFound", message |-> "User not found", users |-> users]
        ELSE IF spread = "internals" /\ users[i].tenants # <<>>
        THEN [status |-> "ValidationError", message |-> "Path tenantId is required.",
              users |-> users]
        ELSE [status |-> "ok", message |-> "",
              users |-> [users EXCEPT ![i].tenants =
                            [k \in DOMAIN users[i].tenants |->
                                [tenantId |-> users[i].tenants[k].tenantId,
                                 default |-> (HexString(users[i].tenants[k].tenantId)
                                                = tenantId)]]]]

AddTenantToUser(userId, tenantId) ==
    LET r == addTenantToUser(userId, tenantId)
    IN  /\ \A i \in DOMAIN users : Len(users[i].tenants) < MaxUserTenants
        /\ users' = r.users
        /\ last' = Result("addTenantToUser", <<userId, tenantId>>, r.status,
                          r.message, "", NoTokens)
        /\ UNCHANGED <<now, issued, procs, tenants, guard>>

RemoveTenantFromUser(userId, tenantId) ==
    LET r == removeTenantFromUser(userId, tenantId)
    IN  /\ users' = r.users
        /\ last' = Result("removeTenantFromUser", <<userId, tenantId>>, r.status,
                          r.message, "", NoTokens)
        /\ UNCHANGED <<now, issued, procs, tenants, guard>>

SetDefaultTenant(userId, tenantId, spread) ==
    LET r == setDefaultTenant(userId, tenantId, spread)
    IN  /\ users' = r.users
        /\ last' = Result("setDefaultTenant", <<userId, tenantId>>, r.status,
                          r.message, "", NoTokens)
        /\ UNCHANGED <<now, issued, procs, tenants, guard>>

NextUserTenants ==
    \/ \E e \in Emails, p \in Passwords : Register(e, p)
    \/ \E u \in UserIds, t \in BodyTenantIds : AddTenantToUser(u, t)
    \/ \E u \in UserIds, t \in BodyTenantIds : RemoveTenantFromUser(u, t)
    \/ \E u \in UserIds, t \in BodyTenantIds, s \in SpreadOutcomes :
          SetDefaultTenant(u, t, s)

SpecUserTenants == Init /\ [][NextUserTenants]_vars

-----------------------------------------------------------------------------
(* TenantService: join requests *)

\* list.find((x) => x.userId.toString() === userId)
FindByUserId(list, userId) ==
    LET hits == {k \in DOMAIN list : HexString(list[k].userId) = userId}
    IN  IF hits = {} THEN 0 ELSE CHOOSE k \in hits : \A j \in hits : k <= j

\* joinRequests.filter((r) => r.userId.toString() !== userId)
FilterRequests(list, userId) ==
    LET RECURSIVE rebuild(_)
        rebuild(k) ==
            IF k > Len(list) THEN <<>>
            ELSE IF HexString(list[k].userId) # userId
                 THEN <<list[k]>> \o rebuild(k + 1)
            ELSE rebuild(k + 1)
    IN  rebuild(1)

requestToJoinTenant_noPendingCheck(userId, tenantId) ==
    LET t == getTenant(tenantId)
        arg == <<userId, tenantId>>
    IN  /\ IF t = 0
           THEN /\ last' = Result("requestToJoinTenant", arg, "NotFound",
                                  "Tenant not found", "", NoTokens)
                /\ UNCHANGED tenants
           ELSE IF FindByUserId(tenants[t].members, userId) # 0
           THEN /\ last' = Result("requestToJoinTenant", arg, "BadRequest",
                                  "You are already a member of this tenant", "",
                                  NoTokens)
                /\ UNCHANGED tenants
           ELSE /\ tenants' = [tenants EXCEPT ![t].joinRequests =
                                  Append(@, [userId |-> CastObjectId(userId)])]
                /\ last' = Result("requestToJoinTenant", arg, "ok", "", "", NoTokens)
        /\ UNCHANGED <<users, now, issued, procs, guard>>

requestToJoinTenant(userId, tenantId) ==
    LET t == getTenant(tenantId)
        arg == <<userId, tenantId>>
    IN  /\ IF t = 0
           THEN /\ last' = Result("requestToJoinTenant", arg, "NotFound",
                                  "Tenant not found", "", NoTokens)
                /\ UNCHANGED tenants
           ELSE IF FindByUserId(tenants[t].joinRequests, userId) # 0
           THEN /\ last' = Result("requestToJoinTenant", arg, "BadRequest",
                                  "You have already requested to join this tenant",
                                  "", NoTokens)
                /\ UNCHANGED tenants
           ELSE IF FindByUserId(tenants[t].members, userId) # 0
           THEN /\ last' = Result("requestToJoinTenant", arg, "BadRequest",
                                  "You are already a member of this tenant", "",
                                  NoTokens)
                /\ UNCHANGED tenants
           ELSE /\ tenants' = [tenants EXCEPT ![t].joinRequests =
                                  Append(@, [userId |-> CastObjectId(userId)])]
                /\ last' = Result("requestToJoinTenant", arg, "ok", "", "", NoTokens)
        /\ UNCHANGED <<users, now, issued, procs, guard>>

respondToJoinRequest_keepRequest(tenantId, userId, approval) ==
    LET t == getTenant(tenantId)
        arg == <<tenantId, userId, approval>>
        k == FindByUserId(tenants[t].joinRequests, userId)
        request == tenants[t].joinRequests[k]
        added == addTenantToUser(request.userId, tenantId)
    IN  /\ IF t = 0
           THEN /\ last' = Result("respondToJoinRequest", arg, "NotFound",
                                  "Tenant not found", "", NoTokens)
                /\ UNCHANGED <<users, tenants>>
           ELSE IF k = 0
           THEN /\ last' = Result("respondToJoinRequest", arg, "NotFound",
                                  "Join request not found", "", NoTokens)
                /\ UNCHANGED <<users, tenants>>
           ELSE IF approval /\ added.status # "ok"
           THEN /\ last' = Result("respondToJoinRequest", arg, added.status,
                                  added.message, "", NoTokens)
                /\ UNCHANGED <<users, tenants>>
           ELSE /\ approval => \A i \in DOMAIN users :
                                  Len(users[i].tenants) < MaxUserTenants
                /\ users' = IF approval THEN added.users ELSE users
                /\ tenants' = [tenants EXCEPT
                      ![t].members =
                          IF approval
                          THEN Append(@, [userId |-> request.userId, role |-> "VIEWER"])
                          ELSE @]
                /\ last' = Result("respondToJoinRequest", arg, "ok", "", "", NoTokens)
        /\ UNCHANGED <<now, issued, procs, guard>>

respondToJoinRequest(tenantId, userId, approval) ==
    LET t == getTenant(tenantId)
        arg == <<tenantId, userId, approval>>
        k == FindByUserId(tenants[t].joinRequests, userId)
        request == tenants[t].joinRequests[k]
        added == addTenantToUser(request.userId, tenantId)
    IN  /\ IF t = 0
           THEN /\ last' = Result("respondToJoinRequest", arg, "NotFound",
                                  "Tenant not found", "", NoTokens)
                /\ UNCHANGED <<users, tenants>>
           ELSE IF k = 0
           THEN /\ last' = Result("respondToJoinRequest", arg, "NotFound",
                                  "Join request not found", "", NoTokens)
                /\ UNCHANGED <<users, tenants>>
           ELSE IF approval /\ added.status # "ok"
           THEN /\ last' = Result("respondToJoinRequest", arg, added.status,
                                  added.message, "", NoTokens)
                /\ UNCHANGED <<users, tenants>>
           ELSE /\ approval => \A i \in DOMAIN users :
                                  Len(users[i].tenants) < MaxUserTenants
                /\ users' = IF approval THEN added.users ELSE users
                /\ tenants' = [tenants EXCEPT
                      ![t].members =
                          IF approval
                          THEN Append(@, [userId |-> request.userId, role |-> "VIEWER"])
                          ELSE @,
                      ![t].joinRequests = FilterRequests(@, userId)]
                /\ last' = Result("respondToJoinRequest", arg, "ok", "", "", NoTokens)
        /\ UNCHANGED <<now, issued, procs, guard>>

\* the ids of the users that hold an account (request.user of an authenticated call)
ExistingUserIds == {HexString(Oid(i)) : i \in DOMAIN users}

NextJoin ==
    \/ \E e \in TwoEmails : Register(e, "pw")
    \/ \E u \in ExistingUserIds, n \in TenantNames : createTenant(Identity(u), n)
    \/ \E t \in TenantIds, u \in ExistingUserIds : addUserToTenant(t, u, "ADMIN")
    \/ \E t \in TenantIds, u \in ExistingUserIds : removeUserFromTenant(t, u)
    \/ \E u \in ExistingUserIds, t \in TenantIds : requestToJoinTenant(u, t)
    \/ \E t \in TenantIds, u \in UserIds, a \in BOOLEAN : respondToJoinRequest(t, u, a)

SpecJoin == Init /\ [][NextJoin]_vars

-----------------------------------------------------------------------------
(* TenantController: the routes behind JwtAuthGuard and TenantRolesGuard *)

\* @TenantRoles(TenantRole.OWNER, TenantRole.ADMIN)
OwnerOrAdmin == Arr({"OWNER", "ADMIN"})

Forbidden(op, arg) ==
    /\ last' = Result(op, arg, "Forbidden", "Forbidden resource", "", NoTokens)
    /\ UNCHANGED <<users, now, issued, procs, tenants, guard>>

SelfRejected(op, arg, message) ==
    /\ last' = Result(op, arg, "BadRequest", message, "", NoTokens)
    /\ UNCHANGED <<users, now, issued, procs, tenants, guard>>

TenantController_addUserToTenant(user, tenantId, bodyUserId, role) ==
    IF ~TenantRolesGuard_canActivate(OwnerOrAdmin, user, tenantId, Undefined)
    THEN Forbidden("addUser", <<user.userId, tenantId, bodyUserId>>)
    ELSE IF StrictEq(user.userId, bodyUserId)
    THEN SelfRejected("addUser", <<user.userId, tenantId, bodyUserId>>,
                      "You cannot add yourself to the tenant")
    ELSE addUserToTenant(tenantId, bodyUserId, role)

TenantController_removeUserFromTenant(user, tenantId, bodyUserId) ==
    IF ~TenantRolesGuard_canActivate(OwnerOrAdmin, user, tenantId, Undefined)
    THEN Forbidden("removeUser", <<user.userId, tenantId, bodyUserId>>)
    ELSE IF StrictEq(user.userId, bodyUserId)
    THEN SelfRejected("removeUser", <<user.userId, tenantId, bodyUserId>>,
                      "You cannot remove yourself from the tenant")
    ELSE removeUserFromTenant(tenantId, bodyUserId)

TenantController_respondToJoinRequest(user, tenantId, bodyUserId, approval) ==
    IF ~TenantRolesGuard_canActivate(OwnerOrAdmin, user, tenantId, Undefined)
    THEN Forbidden("join/respond", <<user.userId, tenantId, bodyUserId>>)
    ELSE respondToJoinRequest(tenantId, bodyUserId, approval)

NextRoutes ==
    \/ \E e \in TwoEmails : Register(e, "pw")
    \/ \E u \in ExistingUserIds, n \in TenantNames : createTenant(Identity(u), n)
    \/ \E u \in ExistingUserIds, t \in TenantIds : requestToJoinTenant(u, t)
    \/ \E u \in ExistingUserIds, t \in TenantIds, b \in UserIds, r \in TenantRole :
          TenantController_addUserToTenant(Identity(u), t, b, r)
    \/ \E u \in ExistingUserIds, t \in TenantIds, b \in UserIds :
          TenantController_removeUserFromTenant(Identity(u), t, b)
    \/ \E u \in ExistingUserIds, t \in TenantIds, b \in UserIds, a \in BOOLEAN :
          TenantController_respondToJoinRequest(Identity(u), t, b, a)

SpecRoutes == Init /\ [][NextRoutes]_vars

-----------------------------------------------------------------------------
(* RolesGuard *)

RoleNames == {"ADMIN", "USER", "MANAGER", "admin"}

\* user.roles?.includes(r)
rolesInclude(user, r) ==
    /\ user.roles # Undefined
    /\ user.roles # NULL
    /\ r \in user.roles.elems

rolesSome_every(user, requiredRoles) ==
    /\ user.roles # Undefined
    /\ user.roles # NULL
    /\ user.roles.elems \subseteq requiredRoles.elems

\* user.roles?.some((r) => requiredRoles.includes(r))
rolesSome(user, requiredRoles) ==
    /\ user.roles # Undefined
    /\ user.roles # NULL
    /\ user.roles.elems \cap requiredRoles.elems # {}

RolesGuard_canActivate_noBypass(requiredRoles, user) ==
    IF requiredRoles = Undefined THEN "allow"
    ELSE IF user = Undefined \/ ~rolesSome(user, requiredRoles) THEN "Forbidden"
    ELSE "allow"

RolesGuard_canActivate_noEarlyReturn(requiredRoles, user) ==
    IF user # Undefined /\ rolesInclude(user, "ADMIN") THEN "allow"
    ELSE IF user = Undefined \/ requiredRoles = Undefined
            \/ ~rolesSome(user, requiredRoles) THEN "Forbidden"
    ELSE "allow"

RolesGuard_canActivate(requiredRoles, user) ==
    IF requiredRoles = Undefined THEN "allow"
    ELSE IF user # Undefined /\ rolesInclude(user, "ADMIN") THEN "allow"
    ELSE IF user = Undefined \/ ~rolesSome(user, requiredRoles) THEN "Forbidden"
    ELSE "allow"

ForbiddenMessage(outcome) ==
    IF outcome = "Forbidden"
    THEN "You do not have permission to access this resource" ELSE ""

RequestUsers ==
    {Undefined} \cup
    {[t |-> "user", userId |-> HexString(Oid(1)), email |-> "", roles |-> r,
      isActive |-> TRUE] :
        r \in {Undefined, NULL} \cup {Arr(S) : S \in SUBSET RoleNames}}

RolesGuardCheck(requiredRoles, user) ==
    /\ guard' = [guard |-> "RolesGuard", flip |-> 1 - guard.flip,
                 requiredRoles |-> requiredRoles,
                 user |-> user,
                 outcome |-> RolesGuard_canActivate(requiredRoles, user),
                 message |-> ForbiddenMessage(RolesGuard_canActivate(requiredRoles, user))]
    /\ UNCHANGED <<users, now, issued, last, procs, tenants>>

NextRoles ==
    \E rr \in {Undefined} \cup {Arr(S) : S \in SUBSET RoleNames},
       u \in RequestUsers : RolesGuardCheck(rr, u)

SpecRoles == Init /\ [][NextRoles]_vars

-----------------------------------------------------------------------------
(* JwtAuthGuard *)

JsFalse == [t |-> "boolean", v |-> FALSE]
Num(n) == [t |-> "number", v |-> n]
Obj(name, message) == [t |-> "object", name |-> name, message |-> message]

\* JavaScript truthiness: null, undefined, false, 0 and '' are falsy
Truthy(x) ==
    /\ x.t \notin {"null", "undefined"}
    /\ x.t = "boolean" => x.v
    /\ x.t = "number" => x.v # 0
    /\ x.t = "text" => x.v # ""

\* info?.name and info?.message
optName(info) == IF info.t \in {"null", "undefined"} THEN Undefined ELSE info.name
optMessage(info) == IF info.t \in {"null", "undefined"} THEN Undefined ELSE info.message

handleRequest_messageFirst(err, user, info) ==
    IF Truthy(err) \/ ~Truthy(user)
    THEN [status |-> "Unauthorized", value |-> Undefined,
          message |-> IF Truthy(optMessage(info)) THEN optMessage(info)
                      ELSE IF optName(info) = Plain("TokenExpiredError")
                           THEN Plain("Token expired")
                      ELSE Plain("Invalid token")]
    ELSE [status |-> "return", value |-> user, message |-> Undefined]

handleRequest(err, user, info) ==
    IF Truthy(err) \/ ~Truthy(user)
    THEN [status |-> "Unauthorized", value |-> Undefined,
          message |-> IF optName(info) = Plain("TokenExpiredError")
                      THEN Plain("Token expired")
                      ELSE IF Truthy(optMessage(info)) THEN optMessage(info)
                      ELSE Plain("Invalid token")]
    ELSE [status |-> "return", value |-> user, message |-> Undefined]

GuardErrs == {NULL, Undefined, Obj(Plain("Error"), Plain("Authentication failed"))}

GuardUsers ==
    {NULL, Undefined, JsFalse, Num(0), Plain(""),
     Identity(HexString(Oid(1))), Plain("user-string"), Num(12345)}

GuardInfos ==
    {NULL, Undefined} \cup
    {Obj(n, m) :
        n \in {Undefined, Plain("TokenExpiredError"), Plain("JsonWebTokenError")},
        m \in {Undefined, Plain(""), Plain("jwt malformed"), Plain("Other message")}}

JwtGuardCheck(err, user, info) ==
    /\ guard' = [guard |-> "JwtAuthGuard", flip |-> 1 - guard.flip,
                 err |-> err, user |-> user, info |-> info,
                 outcome |-> handleRequest(err, user, info)]
    /\ UNCHANGED <<users, now, issued, last, procs, tenants>>

NextJwtGuard ==
    \E err \in GuardErrs, u \in GuardUsers, info \in GuardInfos :
        JwtGuardCheck(err, u, info)

SpecJwtGuard == Init /\ [][NextJwtGuard]_vars

-----------------------------------------------------------------------------
(* Properties of the session lifecycle *)

UserOf(tok) == CastObjectId(tok.sub).hex

\* a later refresh token was issued to the same user: tok is no longer the current one
Superseded(tok) ==
    /\ tok \in RefreshTokens
    /\ \E newer \in RefreshTokens : newer.sub = tok.sub /\ newer.iat > tok.iat

\* refresh would answer tok with a new token pair in this state
Accepted(tok) == refreshTry(tok, "none") = ""

\* C1: rotation -- a refresh that presents a superseded refresh token (one issued
\* before the user's latest refresh token) fails with Forbidden, even though the
\* token is still correctly signed and unexpired.
C1_SupersededTokenRejected ==
    [][\A tok \in issued, f \in Faults :
          (Refresh(tok, f) /\ Superseded(tok)) => last'.status = "Forbidden"]_vars

\* C2: revocation -- logout leaves the user's stored refresh hash null, and while
\* it is null every refresh presenting one of the user's refresh tokens fails with
\* Forbidden and leaves it null (only a login stores a hash again).
C2_LogoutRevokes ==
    [][/\ \A tok \in issued :
            Logout(tok, "none") => users'[UserOf(tok)].refreshToken = NULL
       /\ \A tok \in RefreshTokens, f \in Faults :
            (Refresh(tok, f) /\ users[UserOf(tok)].refreshToken = NULL)
               => (last'.status = "Forbidden" /\ users' = users)]_vars

C2_Witness ==
    /\ last.op = "refresh"
    /\ last.status = "Forbidden"
    /\ last.arg \in RefreshTokens
    /\ ~Superseded(last.arg)
    /\ jwtVerify(last.arg, "JWT_REFRESH_SECRET")
    /\ users[UserOf(last.arg)].refreshToken = NULL

\* C3: single session anchor -- in every state at most one of the refresh tokens
\* issued to a user so far is accepted by refresh.
C3_AtMostOneAccepted ==
    \A i \in DOMAIN users :
        Cardinality({tok \in RefreshTokens : UserOf(tok) = i /\ Accepted(tok)}) <= 1

\* C4: uniform refresh failure -- a refresh that does not return a token pair is
\* answered by Forbidden 'Token expired or invalid.', whichever step failed.
C4_UniformRefreshFailure ==
    (last.op = "refresh" /\ last.status # "ok")
        => /\ last.status = "Forbidden"
           /\ last.message = "Token expired or invalid."
           /\ last.tokens = NoTokens

C4_Witness ==
    /\ last.op = "refresh"
    /\ last.inner = "MongoError"
    /\ last.status = "Forbidden"
    /\ last.arg \in RefreshTokens

\* C5: concurrent refresh is last-write-wins -- when two interleaved refresh
\* requests presenting the same refresh token have both returned a token pair,
\* the stored hash is the one written last and the refresh token returned by the
\* other request is not accepted by a subsequent refresh.
C5_LoserTokenRejected ==
    \A p, q \in Procs :
        (/\ p # q
         /\ procs[p].pc = "done" /\ procs[p].status = "ok"
         /\ procs[q].pc = "done" /\ procs[q].status = "ok"
         /\ procs[p].refreshToken = procs[q].refreshToken
         /\ users[procs[p].user].refreshToken = procs[p].hashed
         /\ procs[q].tokens.refreshToken # procs[p].tokens.refreshToken)
        => ~Accepted(procs[q].tokens.refreshToken)

\* C6: anti-enumeration -- a login for an email without a user record and a login
\* with a password that does not verify both answer Unauthorized 'Invalid
\* credentials', issue no token and leave the user records (stored refresh hash
\* included) untouched.
C6_AntiEnumeration ==
    [][\A e \in LoginEmails, p \in Passwords :
          (/\ Login(e, p)
           /\ \/ \A i \in DOMAIN users : users[i].email # e
              \/ \E i \in DOMAIN users :
                    users[i].email = e /\ users[i].password.key # Plain(p))
          => /\ last'.status = "Unauthorized"
             /\ last'.message = "Invalid credentials"
             /\ last'.tokens = NoTokens
             /\ users' = users
             /\ issued' = issued]_vars

C6_Witness ==
    /\ last.op = "login"
    /\ last.status = "Unauthorized"
    /\ last.arg = "a@x.com"
    /\ \E i \in DOMAIN users : users[i].email = "a@x.com" /\ users[i].refreshToken # NULL

\* C7: registration uniqueness -- register with an email that already has a user
\* record fails with Conflict and leaves the user records unchanged; no two
\* records ever share an email.
C7_RegisterConflict ==
    [][\A e \in Emails, p \in Passwords :
          (Register(e, p) /\ \E i \in DOMAIN users : users[i].email = e)
          => /\ last'.status = "Conflict"
             /\ users' = users
             /\ \A i, j \in DOMAIN users' :
                   users'[i].email = users'[j].email => i = j]_vars

C7_Witness ==
    /\ last.op = "register"
    /\ last.status = "Conflict"
    /\ Len(users) = 1

\* C15: logout is reliable and ordered -- the stored refresh hash is cleared
\* before the cookie: when clearing the hash fails the error is the handler's
\* outcome as it was thrown, the cookie is not cleared and no acknowledgement is
\* returned; when it succeeds the hash is null, the refresh_token cookie is
\* cleared and {message: 'Logged out successfully'} is returned.
C15_LogoutOrdered ==
    [][\A tok \in issued :
          /\ Logout(tok, "removeRefreshToken")
                => /\ last'.status = "Error"
                   /\ last'.message = "Database error"
                   /\ last'.cookie = NoCookie
                   /\ users' = users
          /\ Logout(tok, "none")
                => /\ last'.status = "ok"
                   /\ last'.message = "Logged out successfully"
                   /\ last'.cookie = ClearedCookie
                   /\ users'[UserOf(tok)].refreshToken = NULL]_vars

C15_Witness ==
    /\ last.op = "logout"
    /\ last.status = "Error"
    /\ last.cookie = NoCookie
    /\ \E i \in DOMAIN users :
          HexString(Oid(i)) = last.arg /\ users[i].refreshToken # NULL

\* C20: sanitized registration result -- the value a successful register returns
\* has no password or other credential field, and the password persisted for the
\* new user is the bcrypt hash of the plaintext (one that verifies it), never the
\* plaintext itself.
C20_SanitizedRegistration ==
    [][\A e \in Emails, p \in Passwords :
          (Register(e, p) /\ last'.status = "ok")
          => /\ DOMAIN last'.body \cap {"password", "refreshToken"} = {}
             /\ last'.body.email = e
             /\ \E i \in DOMAIN users' \ DOMAIN users :
                   /\ users'[i].email = e
                   /\ users'[i].password # Plain(p)
                   /\ users'[i].password.t = "bcrypt"
                   /\ bcryptCompare(Plain(p), users'[i].password)]_vars

C20_Witness ==
    /\ last.op = "register"
    /\ last.status = "ok"
    /\ last.body # NULL
    /\ last.body.email = "a@x.com"
    /\ Len(users) = 1
    /\ users[1].password.t = "bcrypt"

\* C18: login cookie -- login sets the refresh_token cookie exactly when the
\* login succeeded; its value is the refresh token returned in the body, whose
\* hash was just stored; it is httpOnly, sameSite strict, maxAge 7 days in
\* milliseconds, and secure exactly when NODE_ENV is 'production'.  A failed
\* login sets no cookie.
C18_LoginCookie ==
    [][\A e \in LoginEmails, p \in Passwords :
          Login(e, p)
          => /\ last'.cookie # NoCookie <=> last'.status = "ok"
             /\ last'.status = "ok"
                  => /\ last'.cookie.action = "cookie"
                     /\ last'.cookie.name = "refresh_token"
                     /\ last'.cookie.value = last'.tokens.refreshToken
                     /\ \E i \in DOMAIN users' :
                           /\ users'[i].email = e
                           /\ users'[i].refreshToken # users[i].refreshToken
                           /\ bcryptCompare(last'.cookie.value, users'[i].refreshToken)
                     /\ last'.cookie.httpOnly
                     /\ last'.cookie.sameSite = "strict"
                     /\ last'.cookie.maxAge = 7 * 24 * 60 * 60 * 1000
                     /\ last'.cookie.secure <=> last'.env = "production"]_vars

C18_Witness ==
    /\ last.op = "login"
    /\ last.status = "ok"
    /\ last.env = "production"
    /\ last.cookie.action = "cookie"
    /\ last.cookie.secure
    /\ last.cookie.value = last.tokens.refreshToken

\* the tokens of the latest issuance (login or refresh) to the user with id sub
PrecedingTokens(sub) ==
    {tok \in issued :
        /\ tok.sub = sub
        /\ \A other \in issued : other.sub = sub => other.iat <= tok.iat}

\* C17: fresh tokens on refresh -- every successful refresh returns an access
\* token and a refresh token that each differ from the ones issued to the user
\* by the immediately preceding login or refresh.
C17_FreshTokens ==
    [][\A tok \in issued, f \in Faults :
          (Refresh(tok, f) /\ last'.status = "ok")
          => /\ last'.tokens.accessToken \notin PrecedingTokens(tok.sub)
             /\ last'.tokens.refreshToken \notin PrecedingTokens(tok.sub)]_vars

\* the user records a read route returned
ReturnedRecords ==
    IF last.op = "getAllUsers" THEN {last.body[i] : i \in DOMAIN last.body}
    ELSE IF last.op = "getUser" /\ last.body # NULL THEN {last.body}
    ELSE {}

\* C16: hidden credential fields -- the records returned by getAllUsers and by
\* findById carry neither the stored password hash nor the stored refresh-token
\* hash.
C16_NoCredentialFields ==
    \A doc \in ReturnedRecords :
        /\ "password" \notin DOMAIN doc
        /\ "refreshToken" \in DOMAIN doc => doc.refreshToken = NULL

-----------------------------------------------------------------------------
(* Properties of the guards *)

\* the membership row of the identity, compared as the service compares ids
\* (member.userId.toString() === userId)
RowOf(members, user) ==
    {i \in DOMAIN members : HexString(members[i].userId) = user.userId}

TenantGuardDecided ==
    /\ guard'.flip # guard.flip
    /\ guard'.guard = "TenantRolesGuard"
    /\ guard'.requiredRoles # Undefined
    /\ guard'.requiredRoles.elems # {}

GuardTenant(g) == getTenant(resolveTenantId(g.paramsId, g.header))

\* the request g is one by an authenticated member of the addressed tenant whose
\* membership role is in the required set
LegitimateMember(g) ==
    /\ g.user # Undefined
    /\ resolveTenantId(g.paramsId, g.header) # Undefined
    /\ GuardTenant(g) # 0
    /\ \E i \in RowOf(tenants[GuardTenant(g)].members, g.user) :
          tenants[GuardTenant(g)].members[i].role \in g.requiredRoles.elems

\* C8: the Tenant Role Guard allows a legitimate member -- on a route with a
\* non-empty required tenant-role set, a request by an authenticated user whose
\* membership row in the addressed tenant has a required role is allowed (in
\* particular the creator of the tenant, stored as OWNER, on OWNER-gated routes).
C8_MemberAllowed ==
    [][(TenantGuardDecided /\ LegitimateMember(guard')) => guard'.allowed]_vars

\* C9: the Tenant Role Guard denies -- on a route with a non-empty required
\* tenant-role set it allows no request that has no identity, no resolvable
\* tenant id, a non-existent tenant, no membership row, or a membership role
\* outside the required set.
C9_GuardDenies ==
    [][(TenantGuardDecided /\ guard'.allowed) => LegitimateMember(guard')]_vars

C9_Witness ==
    /\ guard.guard = "TenantRolesGuard"
    /\ guard.requiredRoles = Arr({"OWNER", "ADMIN"})
    /\ guard.user # Undefined
    /\ resolveTenantId(guard.paramsId, guard.header) # Undefined
    /\ GuardTenant(guard) # 0
    /\ RowOf(tenants[GuardTenant(guard)].members, guard.user) # {}
    /\ \A i \in RowOf(tenants[GuardTenant(guard)].members, guard.user) :
          tenants[GuardTenant(guard)].members[i].role = "VIEWER"
    /\ ~guard.allowed

\* C13: no global bypass -- on a route with a non-empty required tenant-role
\* set, an identity whose global roles include 'ADMIN' but that has no membership
\* row with a required role in the addressed tenant is denied, like any other
\* identity.
C13_NoGlobalBypass ==
    [][(/\ TenantGuardDecided
        /\ guard'.user # Undefined
        /\ guard'.user.roles = Arr({"ADMIN"})
        /\ ~LegitimateMember(guard'))
       => ~guard'.allowed]_vars

C13_Witness ==
    /\ guard.guard = "TenantRolesGuard"
    /\ guard.requiredRoles = Arr({"OWNER", "ADMIN"})
    /\ guard.user # Undefined
    /\ guard.user.roles = Arr({"ADMIN"})
    /\ guard.paramsId = HexString(Oid(1))
    /\ Len(tenants) >= 1
    /\ RowOf(tenants[1].members, guard.user) # {}
    /\ \A i \in RowOf(tenants[1].members, guard.user) :
          tenants[1].members[i].role = "VIEWER"
    /\ ~guard.allowed

\* the identity has a membership row with a required role in the tenant stored
\* under id
MemberWithRole(id, user, requiredRoles) ==
    /\ CastObjectId(id).hex \in DOMAIN tenants
    /\ \E i \in RowOf(tenants[CastObjectId(id).hex].members, user) :
          tenants[CastObjectId(id).hex].members[i].role \in requiredRoles.elems

\* C14: tenant id source of truth -- the guard looks up the tenant named by the
\* path parameter id whenever it is present, also when the x-tenant-id header
\* names a different tenant, and allows only on a membership row of that tenant;
\* the header tenant is looked up only when the path parameter is absent.
C14_PathParamFirst ==
    [][(TenantGuardDecided /\ guard'.user # Undefined)
       => /\ guard'.paramsId # Undefined
               => /\ guard'.fetched = guard'.paramsId
                  /\ guard'.allowed
                       => MemberWithRole(guard'.paramsId, guard'.user,
                                         guard'.requiredRoles)
          /\ guard'.paramsId = Undefined => guard'.fetched = guard'.header]_vars

C14_Witness ==
    /\ guard.guard = "TenantRolesGuard"
    /\ guard.requiredRoles = Arr({"OWNER"})
    /\ guard.user # Undefined
    /\ guard.paramsId = HexString(Oid(1))
    /\ guard.header = HexString(Oid(2))
    /\ Len(tenants) = 2
    /\ RowOf(tenants[1].members, guard.user) = {}
    /\ MemberWithRole(guard.header, guard.user, guard.requiredRoles)
    /\ guard.fetched = guard.paramsId
    /\ ~guard.allowed

\* the message the claim gives the Unauthorized error for info
ExpectedMessage(info) ==
    IF info \notin {NULL, Undefined} /\ info.name = Plain("TokenExpiredError")
    THEN Plain("Token expired")
    ELSE IF info \notin {NULL, Undefined} /\ info.message \notin {Undefined, Plain("")}
    THEN info.message
    ELSE Plain("Invalid token")

\* C19: JwtAuthGuard.handleRequest returns the user unchanged exactly when err is
\* falsy and user is truthy; in every other case it throws Unauthorized with the
\* message 'Token expired' when info.name is 'TokenExpiredError' (before
\* info.message is looked at), else info.message when that is present (a
\* non-empty string), else 'Invalid token'.
C19_HandleRequest ==
    guard.guard = "JwtAuthGuard"
    => /\ guard.outcome.status = "return"
            <=> (~Truthy(guard.err) /\ Truthy(guard.user))
       /\ guard.outcome.status = "return" => guard.outcome.value = guard.user
       /\ guard.outcome.status # "return"
            => /\ guard.outcome.status = "Unauthorized"
               /\ guard.outcome.message = ExpectedMessage(guard.info)

C19_Witness ==
    /\ guard.guard = "JwtAuthGuard"
    /\ guard.err = NULL
    /\ guard.user = NULL
    /\ guard.info = Obj(Plain("TokenExpiredError"), Plain("Other message"))
    /\ guard.outcome.status = "Unauthorized"
    /\ guard.outcome.message = Plain("Token expired")

HasAdmin(user) == user # Undefined /\ rolesInclude(user, "ADMIN")

\* C10 (as claimed): when the required-role set is absent or empty the Role Guard
\* allows the request for every identity.
C10_AbsentOrEmptyAllows ==
    (/\ guard.guard = "RolesGuard"
     /\ \/ guard.requiredRoles = Undefined
        \/ guard.requiredRoles = Arr({}))
    => guard.outcome = "allow"

\* C10 (amended): when the required-role set is absent the Role Guard allows the
\* request for every identity, a missing one included; when it is present but
\* empty the guard allows exactly the identities whose roles include ADMIN and
\* fails with Forbidden for all others.
C10_AbsentAllowsEmptyAdminOnly ==
    guard.guard = "RolesGuard"
    => /\ guard.requiredRoles = Undefined => guard.outcome = "allow"
       /\ guard.requiredRoles = Arr({})
            => /\ guard.outcome = "allow" <=> HasAdmin(guard.user)
               /\ guard.outcome = "Forbidden" <=> ~HasAdmin(guard.user)

C10_Witness ==
    /\ guard.guard = "RolesGuard"
    /\ guard.requiredRoles = Undefined
    /\ guard.user = Undefined
    /\ guard.outcome = "allow"

\* C11: ADMIN bypass -- whenever the required-role set is present (sets that do
\* not mention ADMIN and the empty set included), the Role Guard allows an
\* identity whose roles include 'ADMIN'.
C11_AdminBypass ==
    (/\ guard.guard = "RolesGuard"
     /\ guard.requiredRoles # Undefined
     /\ HasAdmin(guard.user))
    => guard.outcome = "allow"

C11_Witness ==
    /\ guard.guard = "RolesGuard"
    /\ guard.requiredRoles = Arr({"MANAGER"})
    /\ guard.user # Undefined
    /\ guard.user.roles = Arr({"ADMIN"})
    /\ guard.outcome = "allow"

\* the identity carries a roles array that shares a role with the required set
SharesRole(user, requiredRoles) ==
    /\ user # Undefined
    /\ user.roles \notin {Undefined, NULL}
    /\ \E r \in user.roles.elems : r \in requiredRoles.elems

\* C12: intersection rule -- with a required-role set present and an identity
\* without ADMIN, the Role Guard allows exactly when the identity's roles share
\* a role with the required set; in every other case (identity missing, roles
\* null, undefined or empty included) it fails with Forbidden 'You do not have
\* permission to access this resource'.
C12_IntersectionRule ==
    (/\ guard.guard = "RolesGuard"
     /\ guard.requiredRoles # Undefined
     /\ ~HasAdmin(guard.user))
    => /\ guard.outcome = "allow" <=> SharesRole(guard.user, guard.requiredRoles)
       /\ guard.outcome # "allow"
            => /\ guard.outcome = "Forbidden"
               /\ guard.message = "You do not have permission to access this resource"

C12_Witness ==
    /\ guard.guard = "RolesGuard"
    /\ guard.requiredRoles = Arr({"MANAGER", "USER"})
    /\ guard.user # Undefined
    /\ guard.user.roles = Arr({"USER", "admin"})
    /\ guard.outcome = "allow"

-----------------------------------------------------------------------------
(* Properties of the stored credentials *)

\* C21: distinct salted credentials -- two user records registered (under
\* different emails) with the same plaintext password hold different stored
\* credential values, and a login with that plaintext verifies against each of
\* them.
C21_DistinctSaltedCredentials ==
    \A i, j \in DOMAIN users, p \in Passwords :
        (/\ i # j
         /\ users[i].password.key = Plain(p)
         /\ users[j].password.key = Plain(p))
        => /\ users[i].email # users[j].email
           /\ users[i].password # users[j].password
           /\ loginCheck(users[i].email, p).status = "ok"
           /\ loginCheck(users[j].email, p).status = "ok"

C21_Witness ==
    /\ Len(users) = 2
    /\ users[1].password.key = users[2].password.key
    /\ users[1].password # users[2].password
    /\ last.op = "login"
    /\ last.status = "ok"
    /\ last.arg = users[2].email

\* C22: logout wins against an in-flight refresh -- once the stored refresh hash
\* of a user is null (logout completed), it stays null until a login for that
\* user: no step of a refresh request stores a hash again, also when that
\* request had read the user record before logout cleared it.
C22_LogoutWinsRace ==
    [][\A i \in DOMAIN users :
          (users[i].refreshToken = NULL /\ users'[i].refreshToken # NULL)
          => \E e \in LoginEmails, p \in Passwords : Login(e, p)]_vars

\* C23: concurrent registration -- however two register calls for one email
\* interleave, at most one user record with that email exists, and a call that
\* did not create the record has failed with Conflict and no other kind of
\* error.
C23_RaceLoserConflict ==
    /\ \A i, j \in DOMAIN users : users[i].email = users[j].email => i = j
    /\ \A p \in Procs :
          (procs[p].pc = "done" /\ procs[p].status # "ok")
          => procs[p].status = "Conflict"

\* C24: failed attempts do not disturb the session -- a refresh that does not
\* return a token pair (bad signature or expiry, no user, no stored hash, hash
\* mismatch, or a failing call) and a login answered Unauthorized leave the user
\* records, the stored refresh hash included, as they were, so every refresh
\* token that was accepted before the attempt is accepted after it.
C24_FailedAttemptsFrame ==
    [][/\ \A tok \in issued \cup {ForgedToken}, f \in Faults :
            (/\ last'.op = "refresh" /\ last'.status # "ok" /\ last'.arg = tok
             /\ Refresh(tok, f))
            => /\ users' = users
               /\ \A t \in RefreshTokens : Accepted(t) => Accepted(t)'
       /\ \A e \in LoginEmails, p \in Passwords :
            (/\ last'.op = "login" /\ last'.status = "Unauthorized" /\ last'.arg = e
             /\ Login(e, p))
            => /\ users' = users
               /\ \A t \in RefreshTokens : Accepted(t) => Accepted(t)']_vars

C24_Witness ==
    /\ last.op = "refresh"
    /\ last.status = "Forbidden"
    /\ last.inner = "JsonWebTokenError"
    /\ \E t \in RefreshTokens : t # last.arg /\ Accepted(t)

-----------------------------------------------------------------------------
(* Properties of the tenant list of a user *)

Defaults(list) == {k \in DOMAIN list : list[k].default}

\* C27: exactly one default tenant -- whenever the tenant list of a user is
\* non-empty, exactly one of its entries has default = true.
C27_ExactlyOneDefault ==
    \A i \in DOMAIN users :
        users[i].tenants # <<>> => Cardinality(Defaults(users[i].tenants)) = 1

\* C28: a user keeps at least one tenant -- a non-empty tenant list is never
\* made empty, and removeTenantFromUser on a list of exactly one entry fails
\* with BadRequest 'User must have at least one tenant' and changes nothing.
C28_KeepsATenant ==
    [][/\ \A i \in DOMAIN users :
            users[i].tenants # <<>> => users'[i].tenants # <<>>
       /\ \A u \in UserIds, t \in BodyTenantIds :
            (/\ RemoveTenantFromUser(u, t)
             /\ CastObjectId(u).hex \in DOMAIN users
             /\ Len(users[CastObjectId(u).hex].tenants) = 1)
            => /\ last'.status = "BadRequest"
               /\ last'.message = "User must have at least one tenant"
               /\ users' = users]_vars

\* the stored tenant with this id, and the rows of a list that name this user
TenantStored(t) == t.hex \in DOMAIN tenants
RowsOf(list, u) == {k \in DOMAIN list : list[k].userId.hex = u.hex}

\* C30: requestToJoinTenant fails with NotFound when the tenant does not exist and
\* with BadRequest when the user already has a pending request or is already a
\* member, leaving the tenant unchanged in each case; otherwise it appends exactly
\* one join request for the user, so no tenant ever holds two pending requests of
\* the same user.
C30_JoinAdmission ==
    [][\A u \in UserIds, t \in TenantIds :
          (last'.op = "requestToJoinTenant" /\ last'.arg = <<u, t>>
           /\ requestToJoinTenant(u, t)) =>
             /\ IF ~TenantStored(t)
                THEN last'.status = "NotFound" /\ tenants' = tenants
                ELSE IF \/ RowsOf(tenants[t.hex].joinRequests, u) # {}
                        \/ RowsOf(tenants[t.hex].members, u) # {}
                THEN last'.status = "BadRequest" /\ tenants' = tenants
                ELSE /\ last'.status = "ok"
                     /\ tenants' = [tenants EXCEPT ![t.hex].joinRequests =
                                       Append(@, [userId |-> Oid(u.hex)])]
             /\ \A k \in DOMAIN tenants', v \in UserIds :
                   Cardinality(RowsOf(tenants'[k].joinRequests, v)) <= 1]_vars

C30_Witness ==
    /\ last.op = "requestToJoinTenant"
    /\ last.status = "BadRequest"
    /\ last.message = "You have already requested to join this tenant"
    /\ \E k \in DOMAIN tenants : Len(tenants[k].joinRequests) = 1

\* C29: respondToJoinRequest fails with NotFound and changes nothing when the
\* tenant or the user's pending request is absent; after it succeeds the request
\* is gone from joinRequests, and with approval true the user has a member row
\* with role VIEWER and the tenant is in the user's tenant list, with approval
\* false the member list and the user's tenant list are unchanged.
C29_JoinResolution ==
    [][\A t \in TenantIds, u \in UserIds, a \in BOOLEAN :
          (last'.op = "respondToJoinRequest" /\ last'.arg = <<t, u, a>>
           /\ respondToJoinRequest(t, u, a)) =>
             IF ~TenantStored(t) \/ RowsOf(tenants[t.hex].joinRequests, u) = {}
             THEN /\ last'.status = "NotFound"
                  /\ tenants' = tenants
                  /\ users' = users
             ELSE last'.status = "ok" =>
                  /\ RowsOf(tenants'[t.hex].joinRequests, u) = {}
                  /\ a => /\ \E k \in RowsOf(tenants'[t.hex].members, u) :
                                tenants'[t.hex].members[k].role = "VIEWER"
                          /\ \E k \in DOMAIN users'[u.hex].tenants :
                                users'[u.hex].tenants[k].tenantId.hex = t.hex
                  /\ ~a => /\ tenants'[t.hex].members = tenants[t.hex].members
                           /\ users' = users]_vars

C29_Witness ==
    /\ last.op = "respondToJoinRequest"
    /\ last.status = "ok"
    /\ last.arg[3] = TRUE
    /\ \E k \in DOMAIN tenants[last.arg[1].hex].members :
          /\ tenants[last.arg[1].hex].members[k].userId.hex = last.arg[2].hex
          /\ tenants[last.arg[1].hex].members[k].role = "VIEWER"
    /\ users[last.arg[2].hex].tenants # <<>>

\* C25: no tenant's member list contains two rows with the same userId.
C25_UniqueMemberRows ==
    \A k \in DOMAIN tenants, u \in UserIds :
        Cardinality(RowsOf(tenants[k].members, u)) <= 1

====
